---- MODULE Spec2Model ----
(***************************************************************************)
(* Routing, delegation and the A2A client of the multi-agent system.       *)
(*                                                                         *)
(*   SpecRoute   the capability registries built by agents/agent.py and    *)
(*               agents/router_agent.py and the routing policy their       *)
(*               instructions declare; langfuse_tracing.classify_query     *)
(*   Spec        the A2A client of test_agents_a2a.py (main, run_demo,     *)
(*               send_message) against a remote service                    *)
(*   SpecStream  stream_message and its consumer                           *)
(*   SpecTools   the local tools of calculator_agent.py, weather_agent.py  *)
(*   SpecView    what send_message, run_demo and interactive_mode make of  *)
(*               a response body                                           *)
(*   SpecClassify langfuse_tracing.classify_query as run_query calls it    *)
(*   SpecTraces  the functions of langfuse_tracing.py                      *)
(*   SpecLoops   the demo and interactive loops of main.py,                *)
(*               test_agents_adk.py and test_agents_a2a.py                 *)
(*   SpecEntry   the entry points up to the run or the server              *)
(*   SpecExport  langfuse_export_traces.export_from_langfuse               *)
(***************************************************************************)
EXTENDS Integers, Sequences, FiniteSets, TLC

VARIABLES
    registry,       \* dispatcher name -> sequence of registered capabilities
    dispatchLog,    \* history of dispatch decisions
    cpc,            \* position of the A2A client's main / run_demo
    qi,             \* index of the test message run_demo is working on
    card,           \* how run_demo's get_agent_card call ended
    crashed,        \* an exception has left run_demo
    outcome,        \* test message index -> how its send_message call ended
    printed,        \* test message index -> what run_demo printed for it
    wire,           \* requests the client has put on the wire, in order
    remoteTask,     \* request index -> state of the Task the remote holds for it
    hung,           \* request indexes the remote will never answer
    spc,            \* position of a stream_message consumer
    yielded,        \* TaskStates of the updates stream_message has yielded
    langfuse_client,\* langfuse_tracing.langfuse_client
    tracing_enabled,\* langfuse_tracing.tracing_enabled
    spans,          \* number of spans handed to the tracing client
    flushed,        \* langfuse_client.flush() has been called
    toolLog,        \* history of local tool calls and how each ended
    response,       \* a JSON-RPC response body the client has received
    ran,            \* the consumers of the response that have run on it
    demoOut,        \* lines run_demo printed for the response
    chatOut,        \* lines interactive_mode printed for the response
    response_text,  \* send_message's response_text for the response
    calls,          \* test message index -> what send_message received, traced and returned
    classifyLog,    \* history of classify_query calls
    local_traces,   \* langfuse_tracing.local_traces
    sessionFiles,   \* the session files save_session_traces has written
    setupLog,       \* history of setup_langfuse calls
    loop,           \* a demo or interactive loop: which one, its position, its turns
    entry,          \* an entry point: the script, its environment, the steps it has taken
    exports         \* history of export_from_langfuse calls

routeVars  == <<registry, dispatchLog>>
demoVars   == <<cpc, qi, card, crashed, outcome, printed, calls>>
netVars    == <<wire, remoteTask, hung>>
streamVars == <<spc, yielded>>
traceVars  == <<langfuse_client, tracing_enabled, spans, flushed>>
toolVars   == <<toolLog>>
viewVars   == <<response, ran, demoOut, chatOut, response_text>>
laterVars  == <<classifyLog, local_traces, sessionFiles, setupLog, loop, entry, exports>>
vars == <<registry, dispatchLog, cpc, qi, card, crashed, outcome, printed,
          wire, remoteTask, hung, spc, yielded,
          langfuse_client, tracing_enabled, spans, flushed,
          toolLog, response, ran, demoOut, chatOut, response_text,
          calls, classifyLog, local_traces, sessionFiles, setupLog, loop, entry,
          exports>>

(***************************************************************************)
(* Bounds of the model.                                                    *)
(***************************************************************************)
MaxDispatch == 2
MaxStreamUpdates == 2
MaxToolCalls == 2
MaxParts == 2
MaxClassify == 2
MaxSetups == 2
MaxLocalTraces == 2
MaxSaves == 1
MaxTurns == 2
MaxTraces == 2

(***************************************************************************)
(* Text: Python's str.lower() and the `in` substring test.                 *)
(***************************************************************************)
UpperChars == "ABCDEFGHIJKLMNOPQRSTUVWXYZ"
LowerChars == "abcdefghijklmnopqrstuvwxyz"

LowerChar(c) ==
    IF \E i \in 1..Len(UpperChars) : SubSeq(UpperChars, i, i) = c
    THEN LET i == CHOOSE i \in 1..Len(UpperChars) : SubSeq(UpperChars, i, i) = c
         IN  SubSeq(LowerChars, i, i)
    ELSE c

RECURSIVE LowerFrom(_, _)
LowerFrom(s, i) ==
    IF i > Len(s) THEN "" ELSE LowerChar(SubSeq(s, i, i)) \o LowerFrom(s, i + 1)

Lower(s) == LowerFrom(s, 1)

Contains(s, w) ==
    \E i \in 1..(Len(s) - Len(w) + 1) : SubSeq(s, i, i + Len(w) - 1) = w

AnyWordIn(words, s) == \E w \in words : Contains(s, w)

(***************************************************************************)
(* langfuse_tracing.classify_query                                         *)
(***************************************************************************)
WeatherWords == {"weather", "temperature", "forecast", "rain", "sunny", "climate"}
CalculationWords == {"calculate", "compute", "math", "%", "percent", "sqrt",
                     "sum", "add", "multiply", "divide"}
ConversionWords == {"convert", "to miles", "to km", "to celsius",
                    "to fahrenheit", "to lbs", "to kg"}
GreetingWords == {"hello", "hi", "help", "what can you"}

\* a classify_query that tests the calculation words first
classify_query_calculation_first(query) ==
    LET query_lower == Lower(query) IN
    IF AnyWordIn(CalculationWords, query_lower) THEN "calculation"
    ELSE IF AnyWordIn(WeatherWords, query_lower) THEN "weather"
    ELSE IF AnyWordIn(ConversionWords, query_lower) THEN "conversion"
    ELSE IF AnyWordIn(GreetingWords, query_lower) THEN "greeting"
    ELSE "general"

classify_query(query) ==
    LET query_lower == Lower(query) IN
    IF AnyWordIn(WeatherWords, query_lower) THEN "weather"
    ELSE IF AnyWordIn(CalculationWords, query_lower) THEN "calculation"
    ELSE IF AnyWordIn(ConversionWords, query_lower) THEN "conversion"
    ELSE IF AnyWordIn(GreetingWords, query_lower) THEN "greeting"
    ELSE "general"

(***************************************************************************)
(* Query texts the dispatchers are given.                                  *)
(***************************************************************************)
Queries == {
    "Hello! What can you do?",
    "What's the weather in Tokyo?",
    "Calculate 25 * 4 + 10",
    "Convert 100 kilometers to miles",
    "Convert the forecast temperature to fahrenheit",
    "Humidity in Paris",
    "Tell me a story" }

(***************************************************************************)
(* Capabilities.  A capability is registered with a dispatcher under a     *)
(* name; it is local (an in-process function or Agent) or remote (a        *)
(* RemoteA2aAgent reached through its agent card).                         *)
(***************************************************************************)
NoDelegation == "direct"

\* agents/router_agent.py: the keyword lists of router_instruction
RouterWeatherKeywords ==
    {"weather", "temperature", "forecast", "rain", "sunny", "climate",
     "humidity", "wind"}
RouterCalculatorKeywords ==
    {"calculate", "compute", "math", "convert", "percentage", "sqrt", "sum",
     "add", "multiply", "chimichanga"}

\* agents/agent.py: the routing guidelines of root_agent's instruction
RootWeatherWords == {"weather", "temperature", "climate", "atmospheric", "raining"}
RootMathWords == {"calculate", "convert", "percentage"}

Capability(n, l, k, kw) == [name |-> n, locality |-> l, kind |-> k, keywords |-> kw]

weather_remote == Capability("weather_agent", "remote", "agent", RouterWeatherKeywords)
calculator_remote ==
    Capability("calculator_agent", "remote", "agent", RouterCalculatorKeywords)

\* a router that also lists the in-process weather Agent of the same name
RouterSubAgentsWithLocal ==
    << Capability("weather_agent", "local", "agent", RouterWeatherKeywords),
       weather_remote, calculator_remote >>

RouterSubAgents == <<weather_remote, calculator_remote>>

RootAgentTools ==
    << Capability("get_weather", "local", "tool", RootWeatherWords),
       Capability("calculate", "local", "tool", RootMathWords),
       Capability("convert_units", "local", "tool", RootMathWords),
       Capability("calculate_percentage", "local", "tool", RootMathWords) >>

RootAgentSubAgents ==
    << Capability("weather_agent", "local", "agent", RootWeatherWords),
       Capability("calculator_agent", "local", "agent", RootMathWords) >>

Dispatchers == {"root_agent", "router_agent"}

\* root_agent = Agent(..., tools=[...], sub_agents=[...])
ImportAgentModule ==
    /\ registry["root_agent"] = << >>
    /\ registry' = [registry EXCEPT !["root_agent"] = RootAgentTools \o RootAgentSubAgents]
    /\ UNCHANGED <<laterVars, dispatchLog, demoVars, netVars, streamVars, traceVars,
                   toolVars, viewVars>>

\* router_agent = Agent(..., sub_agents=[weather_remote, calculator_remote])
ImportRouterModule ==
    /\ registry["router_agent"] = << >>
    /\ registry' = [registry EXCEPT !["router_agent"] = RouterSubAgents]
    /\ UNCHANGED <<laterVars, dispatchLog, demoVars, netVars, streamVars, traceVars,
                   toolVars, viewVars>>

(***************************************************************************)
(* The routing policy.  The target of a query is chosen by the model the   *)
(* Agent is built on, under the Agent's instruction; the policy below is   *)
(* the set of targets the instruction allows for a query.                  *)
(***************************************************************************)
Matching(reg, q) == {i \in DOMAIN reg : AnyWordIn(reg[i].keywords, Lower(q))}

\* a router that guesses a specialist when no keyword matches
RouterRouteGuessing(q) ==
    IF AnyWordIn(RouterWeatherKeywords, Lower(q)) THEN "weather_agent"
    ELSE "calculator_agent"

\* router_instruction, "ROUTING RULES (in priority order)"
RouterRoute(q) ==
    IF AnyWordIn(RouterWeatherKeywords, Lower(q)) THEN "weather_agent"
    ELSE IF AnyWordIn(RouterCalculatorKeywords, Lower(q)) THEN "calculator_agent"
    ELSE NoDelegation

RouterPermitted(q) == {RouterRoute(q)}

\* root_agent's instruction: "Use the weather tools or transfer to
\* weather_agent", "Use the calculator tools or transfer to calculator_agent",
\* "For general questions -> Answer directly"
RootPermitted(q) ==
    LET reg == RootAgentTools \o RootAgentSubAgents
        m == Matching(reg, q)
    IN  IF m = {} THEN {NoDelegation} ELSE {reg[i].name : i \in m}

Decision(d, q, t) == [dispatcher |-> d, registry |-> registry[d], query |-> q, target |-> t]

\* main.run_agent: runner.run_async on root_agent
DispatchRoot ==
    /\ registry["root_agent"] # << >>
    /\ Len(dispatchLog) < MaxDispatch
    /\ \E q \in Queries : \E t \in RootPermitted(q) :
          dispatchLog' = Append(dispatchLog, Decision("root_agent", q, t))
    /\ UNCHANGED <<laterVars, registry, demoVars, netVars, streamVars, traceVars,
                   toolVars, viewVars>>

\* a dispatch that drops the capability it has just used from the registry
DispatchRouterEvicting ==
    /\ registry["router_agent"] # << >>
    /\ Len(dispatchLog) < MaxDispatch
    /\ \E q \in Queries : \E t \in RouterPermitted(q) :
          dispatchLog' = Append(dispatchLog, Decision("router_agent", q, t))
    /\ registry' = [registry EXCEPT !["router_agent"] =
                       SelectSeq(@, LAMBDA c : c.name # dispatchLog'[Len(dispatchLog')].target)]
    /\ UNCHANGED <<laterVars, demoVars, netVars, streamVars, traceVars, toolVars, viewVars>>

\* agents/router_agent.runner: runner.run_async on router_agent
DispatchRouter ==
    /\ registry["router_agent"] # << >>
    /\ Len(dispatchLog) < MaxDispatch
    /\ \E q \in Queries : \E t \in RouterPermitted(q) :
          dispatchLog' = Append(dispatchLog, Decision("router_agent", q, t))
    /\ UNCHANGED <<laterVars, registry, demoVars, netVars, streamVars, traceVars,
                   toolVars, viewVars>>

(***************************************************************************)
(* langfuse_tracing: the module's global state and setup_langfuse.         *)
(***************************************************************************)
SetupResults == {"no_credentials", "placeholder_keys", "import_error", "init_error", "ok"}

\* a setup_langfuse that raises the flag before it constructs the client
setup_langfuse_flag_first(r) ==
    IF r \in {"ok", "init_error"}
    THEN /\ langfuse_client' = IF r = "ok" THEN "Langfuse" ELSE langfuse_client
         /\ tracing_enabled' = TRUE
    ELSE UNCHANGED <<langfuse_client, tracing_enabled>>

\* setup_langfuse(): the client and the flag are assigned on success only
setup_langfuse(r) ==
    IF r = "ok"
    THEN /\ langfuse_client' = "Langfuse"
         /\ tracing_enabled' = TRUE
    ELSE UNCHANGED <<langfuse_client, tracing_enabled>>

\* setup_langfuse(): return True after the assignments, False on every other path
setup_langfuse_returns(r) == (r = "ok")

get_client == langfuse_client
is_enabled == tracing_enabled

(***************************************************************************)
(* test_agents_a2a.py: the requests the client sends.                      *)
(***************************************************************************)
BaseUrl == "http://localhost:8000"

TestMessages ==
    << "Hello! What can you do?",
       "What's the weather in Tokyo?",
       "Calculate 25 * 4 + 10",
       "Convert 100 kilometers to miles" >>

NumTestMessages == Len(TestMessages)

RECURSIVE RStripSlash(_)
RStripSlash(s) ==
    IF Len(s) > 0 /\ SubSeq(s, Len(s), Len(s)) = "/"
    THEN RStripSlash(SubSeq(s, 1, Len(s) - 1))
    ELSE s

NoSession == "None"

\* get_agent_card: GET {base_url}/.well-known/agent-card.json
CardRequest(base_url) ==
    [http |-> "GET", url |-> base_url \o "/.well-known/agent-card.json",
     jsonrpc |-> "", method |-> "", text |-> "", ctxKey |-> "", ctxVal |-> "",
     q |-> 0]

\* send_message: the payload and the URL it is posted to
SendPayload(base_url, message, session_id, k) ==
    [http |-> "POST", url |-> RStripSlash(base_url),
     jsonrpc |-> "2.0", method |-> "message/send", text |-> message,
     ctxKey |-> IF session_id # NoSession THEN "contextId" ELSE "",
     ctxVal |-> IF session_id # NoSession THEN session_id ELSE "",
     q |-> k]

\* stream_message: the payload and the URL it is posted to
StreamPayload(base_url, message, session_id, k) ==
    [http |-> "POST", url |-> base_url \o "/a2a",
     jsonrpc |-> "2.0", method |-> "tasks/sendSubscribe", text |-> message,
     ctxKey |-> IF session_id # NoSession THEN "sessionId" ELSE "",
     ctxVal |-> IF session_id # NoSession THEN session_id ELSE "",
     q |-> k]

Put(req) ==
    /\ wire' = Append(wire, req)
    /\ remoteTask' = Append(remoteTask, "none")

Last == Len(wire)

(***************************************************************************)
(* The remote service: the Task it holds for a request.                    *)
(***************************************************************************)
TaskStates == {"submitted", "working", "input-required", "completed", "failed", "canceled"}
Terminal == {"completed", "failed", "canceled"}

\* the remote has received the request and started a Task for it
RemoteAccepts ==
    /\ Last > 0
    /\ wire[Last].http = "POST"
    /\ remoteTask[Last] = "none"
    /\ \/ cpc = "awaiting"
       \/ spc = "open"
    /\ remoteTask' = [remoteTask EXCEPT ![Last] = "working"]
    /\ UNCHANGED <<laterVars, toolVars, viewVars, routeVars, demoVars, wire, hung, streamVars, traceVars>>

\* the remote stops answering while its Task is not finished
RemoteStalls ==
    /\ Last > 0
    /\ \/ cpc = "awaiting"
       \/ spc = "open"
    /\ remoteTask[Last] \in TaskStates \ Terminal
    /\ Last \notin hung
    /\ hung' = hung \cup {Last}
    /\ UNCHANGED <<laterVars, toolVars, viewVars, routeVars, demoVars, wire, remoteTask, streamVars, traceVars>>

\* the moves of a Task: Submitted -> Working -> {Completed, Failed,
\* InputRequired}; InputRequired -> Working; any non-terminal -> Canceled
Lawful(s, t) ==
    \/ s = "submitted" /\ t = "working"
    \/ s = "working" /\ t \in {"completed", "failed", "input-required"}
    \/ s = "input-required" /\ t = "working"
    \/ s \notin Terminal /\ t = "canceled"

(***************************************************************************)
(* test_agents_a2a.py: main, run_demo and send_message.                    *)
(***************************************************************************)
\* main(): lf.setup_langfuse(), then the mode chosen by the arguments
MainSetupLangfuse ==
    /\ cpc = "main"
    /\ \E r \in SetupResults : setup_langfuse(r)
    /\ cpc' = "discover"
    /\ UNCHANGED <<laterVars, toolVars, viewVars, routeVars, qi, card, crashed, outcome, printed, calls, netVars,
                   streamVars, spans, flushed>>

\* run_demo, step 1: await get_agent_card(base_url)
GetAgentCardSend ==
    /\ cpc = "discover"
    /\ Put(CardRequest(BaseUrl))
    /\ cpc' = "awaiting_card"
    /\ UNCHANGED <<laterVars, toolVars, viewVars, routeVars, qi, card, crashed, outcome, printed, calls, hung,
                   streamVars, traceVars>>

\* how the GET ends: a JSON object with the fields of an agent card ("ok"),
\* a JSON object without "name" or without "url", a non-success status
\* (404, 500, ...), a transport failure, a body that is not JSON
CardResults == {"ok", "ok_no_name", "ok_no_url", "status_error",
                "connect_error", "timeout", "not_json"}

\* the required keys the returned JSON object carries
CardFields(r) ==
    CASE r = "ok" -> {"name", "url"}
      [] r = "ok_no_name" -> {"url"}
      [] r = "ok_no_url" -> {"name"}
      [] OTHER -> {}

\* a get_agent_card without response.raise_for_status()
CardRaisesIgnoringStatus(r) ==
    CASE r \in {"connect_error", "timeout"} -> "HTTPError"
      [] r = "not_json" -> "ValueError"
      [] OTHER -> "nothing"

\* what get_agent_card raises: httpx.HTTPError for a transport failure or a
\* non-success status, ValueError for a body that is not JSON; any JSON
\* body of a success response is returned as it is
CardRaises(r) ==
    CASE r \in {"status_error", "connect_error", "timeout"} -> "HTTPError"
      [] r = "not_json" -> "ValueError"
      [] OTHER -> "nothing"

\* run_demo: agent_card.get('name', 'Unknown'), agent_card.get('url', base_url)
ShownCard(r, base_url) ==
    [name |-> IF "name" \in CardFields(r) THEN "name of the card" ELSE "Unknown",
     url  |-> IF "url" \in CardFields(r) THEN "url of the card" ELSE base_url]

\* run_demo: try ... except httpx.HTTPError: print, return
CardResponds ==
    /\ cpc = "awaiting_card"
    /\ \E r \in CardResults :
         /\ card' = r
         /\ crashed' = (CardRaises(r) = "ValueError")
         /\ cpc' = IF CardRaises(r) = "nothing" THEN "loop" ELSE "finally"
    /\ UNCHANGED <<laterVars, toolVars, viewVars, routeVars, qi, outcome, printed, calls, netVars, streamVars, traceVars>>

\* send_message up to its await: client.post(url, json=payload)
SendMessagePost ==
    /\ cpc = "loop"
    /\ qi <= NumTestMessages
    /\ Put(SendPayload(BaseUrl, TestMessages[qi], NoSession, qi))
    /\ cpc' = "awaiting"
    /\ UNCHANGED <<laterVars, toolVars, viewVars, routeVars, qi, card, crashed, outcome, printed, calls, hung,
                   streamVars, traceVars>>

Responses == {"completed", "failed", "rpc_error", "empty", "status_error", "not_json"}

\* how send_message ends for a response: raise_for_status, response.json(),
\* return result
SendMessageEnds(resp) ==
    CASE resp = "status_error" -> "raised_status"
      [] resp = "not_json" -> "raised_decode"
      [] OTHER -> "returned"

HTTPErrors == {"raised_status", "raised_timeout", "raised_connect"}

\* run_demo's loop body after send_message: what it prints
DemoPrints(resp, how) ==
    IF how \in HTTPErrors THEN {"http_error"}
    ELSE IF how # "returned" THEN {"error"}
    ELSE CASE resp = "completed" -> {"status", "response"}
           [] resp = "failed" -> {"status"}
           [] resp = "rpc_error" -> {"rpc_error"}
           [] OTHER -> {}

\* the for loop goes on to the next test message, after a result and after
\* an error alike
AfterResult(k) == k + 1
\* a loop that sends the failed message again
AfterErrorRetrying(k) == k
AfterError(k) == k + 1

\* send_message raised: run_demo's except clauses report it
Raised(how) ==
    /\ outcome' = [outcome EXCEPT ![qi] = how]
    /\ printed' = [printed EXCEPT ![qi] = DemoPrints("none", how)]
    /\ qi' = AfterError(qi)
    /\ cpc' = "loop"
    /\ UNCHANGED calls

\* httpx.ConnectError: the request never reached the remote
PostConnectError ==
    /\ cpc = "awaiting"
    /\ remoteTask[Last] = "none"
    /\ Raised("raised_connect")
    /\ UNCHANGED <<laterVars, toolVars, viewVars, routeVars, card, crashed, netVars, streamVars, traceVars>>

\* httpx.TimeoutException: the 60 s deadline passed with no answer
PostTimeout ==
    /\ cpc = "awaiting"
    /\ Raised("raised_timeout")
    /\ UNCHANGED <<laterVars, toolVars, viewVars, routeVars, card, crashed, netVars, streamVars, traceVars>>

RemoteEnd(resp) == IF resp = "completed" THEN "completed" ELSE "failed"

\* the tracing block of send_message runs when a client is set and tracing
\* is enabled: it records a span, or the tracing client raises
TraceOutcomes ==
    IF get_client # "None" /\ is_enabled THEN {"span", "error"} ELSE {"off"}

TraceCall(tr) == spans' = IF tr = "span" THEN spans + 1 ELSE spans

\* a send_message whose tracing block lets the error of the tracing client out
AfterTracingPropagating(result, tr) ==
    IF tr = "error" THEN "raised_trace" ELSE result

\* try: ... except Exception: pass, then return result
AfterTracing(result, tr) == result

NoCall == [received |-> "none", tracing |-> "none", returned |-> "none"]

\* the remote answers; send_message finishes and run_demo prints
RemoteResponds ==
    /\ cpc = "awaiting"
    /\ remoteTask[Last] = "working"
    /\ Last \notin hung
    /\ \E resp \in Responses :
         /\ remoteTask' = [remoteTask EXCEPT ![Last] = RemoteEnd(resp)]
         /\ IF SendMessageEnds(resp) = "returned"
            THEN /\ outcome' = [outcome EXCEPT ![qi] = "returned"]
                 /\ printed' = [printed EXCEPT ![qi] = DemoPrints(resp, "returned")]
                 /\ qi' = AfterResult(qi)
                 /\ cpc' = "loop"
                 /\ \E tr \in TraceOutcomes :
                       /\ TraceCall(tr)
                       /\ calls' = [calls EXCEPT ![qi] =
                              [received |-> resp, tracing |-> tr,
                               returned |-> AfterTracing(resp, tr)]]
            ELSE /\ Raised(SendMessageEnds(resp))
                 /\ UNCHANGED spans
    /\ UNCHANGED <<laterVars, toolVars, viewVars, routeVars, card, crashed, wire, hung,
                   streamVars, langfuse_client, tracing_enabled, flushed>>

\* a remote that is only slow finishes a Task whose caller has given up
RemoteFinishesLate ==
    /\ \E i \in DOMAIN wire :
         /\ remoteTask[i] = "working"
         /\ i \notin hung
         /\ ~(i = Last /\ (cpc = "awaiting" \/ spc = "open"))
         /\ \E end \in {"completed", "failed"} :
              remoteTask' = [remoteTask EXCEPT ![i] = end]
    /\ UNCHANGED <<laterVars, toolVars, viewVars, routeVars, demoVars, wire, hung, streamVars, traceVars>>

\* run_demo returns after the last test message
LoopEnds ==
    /\ cpc = "loop"
    /\ qi > NumTestMessages
    /\ cpc' = "finally"
    /\ UNCHANGED <<laterVars, toolVars, viewVars, routeVars, qi, card, crashed, outcome, printed, calls, netVars,
                   streamVars, traceVars>>

\* main(): finally: if lf.get_client() and lf.is_enabled(): lf.flush()
MainFinally ==
    /\ cpc = "finally"
    /\ flushed' = (get_client # "None" /\ is_enabled)
    /\ cpc' = IF crashed THEN "crashed" ELSE "done"
    /\ UNCHANGED <<laterVars, toolVars, viewVars, routeVars, qi, card, crashed, outcome, printed, calls, netVars,
                   streamVars, langfuse_client, tracing_enabled, spans>>

(***************************************************************************)
(* test_agents_a2a.py: stream_message, driven by a consumer that iterates  *)
(* the generator.                                                          *)
(***************************************************************************)
Sessions == {NoSession, "session-1"}

\* stream_message up to client.stream("POST", url, json=payload)
StreamOpen ==
    /\ spc = "idle"
    /\ \E k \in 1..NumTestMessages : \E session_id \in Sessions :
         Put(StreamPayload(BaseUrl, TestMessages[k], session_id, k))
    /\ spc' = "open"
    /\ UNCHANGED <<laterVars, toolVars, viewVars, routeVars, demoVars, hung, yielded, traceVars>>

\* the connection cannot be made: the generator raises
StreamConnectError ==
    /\ spc = "open"
    /\ remoteTask[Last] = "none"
    /\ spc' = "raised"
    /\ UNCHANGED <<laterVars, toolVars, viewVars, routeVars, demoVars, netVars, yielded, traceVars>>

\* a "data: " line arrives and is yielded; it reports the state of the
\* remote Task, which has moved or has produced more output
StreamUpdate ==
    /\ spc = "open"
    /\ remoteTask[Last] \in TaskStates \ Terminal
    /\ Last \notin hung
    /\ Len(yielded) < MaxStreamUpdates
    /\ \E st \in TaskStates :
         /\ st = remoteTask[Last] \/ Lawful(remoteTask[Last], st)
         /\ remoteTask' = [remoteTask EXCEPT ![Last] = st]
         /\ yielded' = Append(yielded, st)
    /\ UNCHANGED <<laterVars, toolVars, viewVars, routeVars, demoVars, wire, hung, spc, traceVars>>

\* the remote closes the connection: aiter_lines ends and so does the generator
StreamClosed ==
    /\ spc = "open"
    /\ remoteTask[Last] # "none"
    /\ Last \notin hung
    /\ spc' = "ended"
    /\ UNCHANGED <<laterVars, toolVars, viewVars, routeVars, demoVars, netVars, yielded, traceVars>>

\* no line for 120 s: httpx.ReadTimeout leaves the generator
StreamTimeout ==
    /\ spc = "open"
    /\ spc' = "raised"
    /\ UNCHANGED <<laterVars, toolVars, viewVars, routeVars, demoVars, netVars, yielded, traceVars>>

(***************************************************************************)
(* The local tools: agents/calculator_agent.py (calculate, convert_units,  *)
(* calculate_percentage) and agents/weather_agent.py (get_weather).  An    *)
(* argument is a Python value: a str, a float, an int or None; the model   *)
(* of the language model supplies the arguments of a call.                 *)
(***************************************************************************)
Str(t) == [py |-> "str", s |-> t, mag |-> "text"]
PyNone == [py |-> "NoneType", s |-> "", mag |-> "none"]
Float(m) == [py |-> "float", s |-> "", mag |-> m]
\* an int too large for a float, such as 10**400
HugeInt == [py |-> "int", s |-> "", mag |-> "huge"]

NoFault == "none"
First(f, g) == IF f # NoFault THEN f ELSE g

\* Python arithmetic of a value with a float or by true division
\* (x * 0.621371, x / 100, x + 273.15, percentage / value)
ArithFault(v) ==
    CASE v.py = "float" -> NoFault
      [] v.py = "int" /\ v.mag = "huge" -> "OverflowError"
      [] v.py = "int" -> NoFault
      [] OTHER -> "TypeError"

\* x.lower().strip() on an argument
StrMethodFault(v) == IF v.py = "str" THEN NoFault ELSE "AttributeError"

RECURSIVE LStrip(_)
LStrip(t) ==
    IF Len(t) > 0 /\ SubSeq(t, 1, 1) = " " THEN LStrip(SubSeq(t, 2, Len(t))) ELSE t

RECURSIVE RStrip(_)
RStrip(t) ==
    IF Len(t) > 0 /\ SubSeq(t, Len(t), Len(t)) = " "
    THEN RStrip(SubSeq(t, 1, Len(t) - 1)) ELSE t

Strip(t) == LStrip(RStrip(t))

Returned == [kind |-> "returned", error |-> ""]
ReturnedError(msg) == [kind |-> "returned", error |-> msg]
RaisedOut(exc) == [kind |-> "raised", error |-> exc]

\* eval(expr, {"__builtins__": {}}, safe_dict) and the formatting of its
\* result (int(result) of a float), on sample expressions
PyEval(expr) ==
    CASE expr = "1/0" -> "ZeroDivisionError"
      [] expr = "sqrt(-1)" -> "ValueError"
      [] expr = "2 +" -> "SyntaxError"
      [] expr = "foo(1)" -> "NameError"
      [] expr = "10.0**400" -> "OverflowError"
      [] expr = "inf" -> "OverflowError"
      [] expr = "'a' + 1" -> "TypeError"
      [] OTHER -> NoFault

Expressions ==
    {Str("2 + 3 * 4"), Str(" sqrt(16) "), Str("1/0"), Str("sqrt(-1)"), Str("2 +"),
     Str("foo(1)"), Str("10.0**400"), Str("inf"), PyNone}

\* calculate: the whole body is inside try; every except clause returns
calculate(expression) ==
    LET fault == First(StrMethodFault(expression), PyEval(Strip(expression.s))) IN
    CASE fault = NoFault -> Returned
      [] fault = "ZeroDivisionError" -> ReturnedError("Division by zero is undefined")
      [] fault = "ValueError" -> ReturnedError("Mathematical error")
      [] fault = "SyntaxError" -> ReturnedError("Invalid mathematical expression syntax")
      [] OTHER -> ReturnedError("Calculation error")

conversions ==
    { <<"km", "miles">>, <<"miles", "km">>, <<"m", "ft">>, <<"ft", "m">>,
      <<"cm", "inches">>, <<"inches", "cm">>, <<"m", "cm">>, <<"cm", "m">>,
      <<"celsius", "fahrenheit">>, <<"fahrenheit", "celsius">>,
      <<"celsius", "kelvin">>, <<"kelvin", "celsius">>,
      <<"fahrenheit", "kelvin">>, <<"kelvin", "fahrenheit">>,
      <<"kg", "lbs">>, <<"lbs", "kg">>, <<"g", "oz">>, <<"oz", "g">>,
      <<"sqm", "sqft">>, <<"sqft", "sqm">> }

\* convert_units: no try; the units are normalised, the table is looked up
\* and the conversion is applied to the value
convert_units(value, from_unit, to_unit) ==
    LET f == First(StrMethodFault(from_unit), StrMethodFault(to_unit))
        key == <<Strip(Lower(from_unit.s)), Strip(Lower(to_unit.s))>>
    IN  IF f # NoFault THEN RaisedOut(f)
        ELSE IF key \in conversions
             THEN IF ArithFault(value) # NoFault
                  THEN RaisedOut(ArithFault(value)) ELSE Returned
             ELSE ReturnedError("Conversion is not supported")

\* calculate_percentage: no try; value == 0 is tested for what_percent only
calculate_percentage(value, percentage, operation) ==
    IF StrMethodFault(operation) # NoFault THEN RaisedOut(StrMethodFault(operation))
    ELSE LET op == Strip(Lower(operation.s)) IN
         IF op \in {"of", "increase", "decrease"}
         THEN LET f == First(ArithFault(percentage), ArithFault(value)) IN
              IF f # NoFault THEN RaisedOut(f) ELSE Returned
         ELSE IF op = "what_percent"
         THEN IF value.py \in {"float", "int"} /\ value.mag = "zero"
              THEN ReturnedError("Cannot calculate percentage of zero")
              ELSE LET f == First(ArithFault(percentage), ArithFault(value)) IN
                   IF f # NoFault THEN RaisedOut(f) ELSE Returned
         ELSE ReturnedError("Unknown operation")

\* OPENWEATHERMAP_API_KEY and how the call of the weather API ends
WeatherEnvs == {"no_key", "placeholder_key", "key_api_ok", "key_api_error"}

\* get_weather: the API call is inside try / except Exception: pass; the
\* mock data below it are looked up with location.lower().strip()
get_weather(location, unit, env) ==
    IF env = "key_api_ok" THEN Returned
    ELSE IF StrMethodFault(location) # NoFault
         THEN RaisedOut(StrMethodFault(location))
         ELSE Returned

Values == {Float("normal"), Float("zero"), HugeInt, Str("100")}
UnitPairs ==
    { <<Str("km"), Str("miles")>>, <<Str(" KM "), Str("Miles")>>,
      <<Str("celsius"), Str("kelvin")>>, <<Str("km"), Str("kg")>>,
      <<PyNone, Str("km")>> }
Operations ==
    {Str("of"), Str("increase"), Str("decrease"), Str("what_percent"),
     Str(" OF "), Str("root"), PyNone}
Locations == {Str("Tokyo"), Str(" london "), Str("Atlantis"), PyNone}
Units == {Str("celsius"), Str("fahrenheit")}

Call(t, a, o) == [tool |-> t, args |-> a, outcome |-> o]

\* the model calls calculate(expression)
CallCalculate ==
    /\ Len(toolLog) < MaxToolCalls
    /\ \E x \in Expressions :
          toolLog' = Append(toolLog, Call("calculate", <<x>>, calculate(x)))
    /\ UNCHANGED <<laterVars, routeVars, demoVars, netVars, streamVars, traceVars, viewVars>>

\* the model calls convert_units(value, from_unit, to_unit)
CallConvertUnits ==
    /\ Len(toolLog) < MaxToolCalls
    /\ \E v \in Values : \E u \in UnitPairs :
          toolLog' = Append(toolLog,
              Call("convert_units", <<v, u[1], u[2]>>, convert_units(v, u[1], u[2])))
    /\ UNCHANGED <<laterVars, routeVars, demoVars, netVars, streamVars, traceVars, viewVars>>

\* the model calls calculate_percentage(value, percentage, operation)
CallCalculatePercentage ==
    /\ Len(toolLog) < MaxToolCalls
    /\ \E v \in Values : \E o \in Operations :
          toolLog' = Append(toolLog,
              Call("calculate_percentage", <<v, Float("normal"), o>>,
                   calculate_percentage(v, Float("normal"), o)))
    /\ UNCHANGED <<laterVars, routeVars, demoVars, netVars, streamVars, traceVars, viewVars>>

\* the model calls get_weather(location, unit)
CallGetWeather ==
    /\ Len(toolLog) < MaxToolCalls
    /\ \E l \in Locations : \E u \in Units : \E env \in WeatherEnvs :
          toolLog' = Append(toolLog,
              Call("get_weather", <<l, u, Str(env)>>, get_weather(l, u, env)))
    /\ UNCHANGED <<laterVars, routeVars, demoVars, netVars, streamVars, traceVars, viewVars>>

(***************************************************************************)
(* test_agents_a2a.py: what the client makes of a JSON-RPC response body:  *)
(* send_message's response_text, run_demo's printout and                   *)
(* interactive_mode's printout.                                            *)
(***************************************************************************)
\* run_demo: text[:200] + "..." if len(text) > 200 else text
DisplayLimit == 200

RECURSIVE Repeat(_, _)
Repeat(t, n) == IF n = 0 THEN "" ELSE t \o Repeat(t, n - 1)

\* the text of a part; "" is a part with an empty text or without one
Texts == {"", "4", Repeat("x", DisplayLimit + 1)}

RECURSIVE Flatten(_)
Flatten(ss) == IF ss = << >> THEN << >> ELSE Head(ss) \o Flatten(Tail(ss))

SeqsUpTo(S, lo, n) == UNION {[1..k -> S] : k \in lo..n}

\* result["artifacts"]: artifacts of one part or more, MaxParts parts in all
ArtifactLists ==
    {a \in SeqsUpTo(SeqsUpTo(Texts, 1, MaxParts), 0, MaxParts) :
        Len(Flatten(a)) <= MaxParts}

Body(t, st, has, arts) ==
    [top |-> t, state |-> st, hasArtifacts |-> has, artifacts |-> arts]

NoResponse == Body("none", "absent", FALSE, << >>)

\* response.json(): {"result": {...}} with or without "status" and
\* "artifacts", {"error": {...}}, or an object with neither key
ResponseBodies ==
    {Body("result", st, TRUE, a) :
        st \in {"absent", "completed", "failed", "canceled"}, a \in ArtifactLists}
    \cup {Body("result", st, FALSE, << >>) :
        st \in {"absent", "completed", "failed", "canceled"}}
    \cup {Body("error", "absent", FALSE, << >>), Body("neither", "absent", FALSE, << >>)}

Line(tag, t) == [tag |-> tag, text |-> t]

RECURSIVE Concat(_)
Concat(ts) == IF ts = << >> THEN "" ELSE Head(ts) \o Concat(Tail(ts))

\* send_message: response_text += part["text"] over every artifact and part
ExtractText(r) ==
    IF r.top = "result" /\ r.hasArtifacts THEN Concat(Flatten(r.artifacts)) ELSE ""

DisplayText(t) ==
    IF Len(t) > DisplayLimit THEN SubSeq(t, 1, DisplayLimit) \o "..." ELSE t

\* for artifact ...: for part ...: text = part.get("text", ""); if text:
TextsToShow(r) == SelectSeq(Flatten(r.artifacts), LAMBDA t : t # "")

\* run_demo, the body of its loop after send_message has returned
DemoDisplay(r) ==
    IF r.top = "result"
    THEN (IF r.state # "absent" THEN <<Line("Status", r.state)>> ELSE << >>)
         \o (IF r.hasArtifacts
              THEN [i \in DOMAIN TextsToShow(r) |->
                       Line("Response", DisplayText(TextsToShow(r)[i]))]
              ELSE << >>)
    ELSE IF r.top = "error" THEN <<Line("ERROR", "error")>>
    ELSE << >>

\* interactive_mode, after send_message has returned
InteractiveDisplay(r) ==
    IF r.top = "result"
    THEN IF r.hasArtifacts
         THEN [i \in DOMAIN TextsToShow(r) |-> Line("Agent", TextsToShow(r)[i])]
         ELSE << >>
    ELSE IF r.top = "error" THEN <<Line("ERROR", "error")>>
    ELSE << >>

\* send_message: result = response.json()
ReceiveResponse ==
    /\ response = NoResponse
    /\ response' \in ResponseBodies
    /\ UNCHANGED <<laterVars, routeVars, demoVars, netVars, streamVars, traceVars, toolVars,
                   ran, demoOut, chatOut, response_text>>

\* send_message: the extraction of response_text
SendMessageExtract ==
    /\ response # NoResponse
    /\ "send_message" \notin ran
    /\ response_text' = ExtractText(response)
    /\ ran' = ran \cup {"send_message"}
    /\ UNCHANGED <<laterVars, routeVars, demoVars, netVars, streamVars, traceVars, toolVars,
                   response, demoOut, chatOut>>

\* run_demo prints the response send_message returned
DemoShows ==
    /\ "send_message" \in ran
    /\ "run_demo" \notin ran
    /\ demoOut' = DemoDisplay(response)
    /\ ran' = ran \cup {"run_demo"}
    /\ UNCHANGED <<laterVars, routeVars, demoVars, netVars, streamVars, traceVars, toolVars,
                   response, chatOut, response_text>>

\* interactive_mode prints the response send_message returned
InteractiveShows ==
    /\ "send_message" \in ran
    /\ "interactive_mode" \notin ran
    /\ chatOut' = InteractiveDisplay(response)
    /\ ran' = ran \cup {"interactive_mode"}
    /\ UNCHANGED <<laterVars, routeVars, demoVars, netVars, streamVars, traceVars, toolVars,
                   response, demoOut, response_text>>

(***************************************************************************)
(* test_agents_adk.run_query: the query is classified for tagging.         *)
(***************************************************************************)
ClassifyInputs ==
    Queries \cup
    { "", "HI", "this", "What is 15% of 200", "Change 5 miles TO KM",
      "Compute and convert to miles", "help me convert this",
      "Add up the rain totals", "Sunny?" }

TagSets == { << >>, <<"demo">> }

\* run_query: query_type = classify_query(query);
\* auto_tags = [query_type, "multi-agent"], extended by tags
RunQueryClassifies ==
    /\ Len(classifyLog) < MaxClassify
    /\ \E query \in ClassifyInputs : \E tags \in TagSets :
          LET query_type == classify_query(query) IN
          classifyLog' = Append(classifyLog,
              [query |-> query, query_type |-> query_type,
               auto_tags |-> <<query_type, "multi-agent">> \o tags])
    /\ UNCHANGED <<routeVars, demoVars, netVars, streamVars, traceVars, toolVars,
                   viewVars, local_traces, sessionFiles, setupLog, loop, entry,
                   exports>>

(***************************************************************************)
(* langfuse_tracing: the calls a process makes on the module, in any       *)
(* order: setup_langfuse, flush, save_trace_locally, save_session_traces,  *)
(* create_trace_span.                                                      *)
(***************************************************************************)
SessionIds == {"session-A", "session-B"}

\* setup_langfuse()
SetupLangfuseCall ==
    /\ Len(setupLog) < MaxSetups
    /\ \E r \in SetupResults :
          /\ setup_langfuse(r)
          /\ setupLog' = Append(setupLog,
                [result |-> r, returned |-> setup_langfuse_returns(r),
                 before |-> <<langfuse_client, tracing_enabled>>,
                 after |-> <<langfuse_client', tracing_enabled'>>])
    /\ UNCHANGED <<routeVars, demoVars, netVars, streamVars, spans, flushed, toolVars,
                   viewVars, classifyLog, local_traces, sessionFiles, loop, entry,
                   exports>>

\* flush(): if langfuse_client: langfuse_client.flush()
FlushCall ==
    /\ ~flushed
    /\ langfuse_client # "None"
    /\ flushed' = TRUE
    /\ UNCHANGED <<routeVars, demoVars, netVars, streamVars, langfuse_client,
                   tracing_enabled, spans, toolVars, viewVars, laterVars>>

TraceFile(t) == [kind |-> "trace", session_id |-> t.session_id, trace_count |-> 1,
                 traces |-> <<t>>]

\* save_trace_locally(trace_data): the trace is appended to local_traces
\* and written to a file of its own
SaveTraceLocally ==
    /\ Len(local_traces) < MaxLocalTraces
    /\ \E sid \in SessionIds :
          LET trace_data == [session_id |-> sid, trace_id |-> Len(local_traces) + 1] IN
          /\ local_traces' = Append(local_traces, trace_data)
          /\ sessionFiles' = Append(sessionFiles, TraceFile(trace_data))
    /\ UNCHANGED <<routeVars, demoVars, netVars, streamVars, traceVars, toolVars,
                   viewVars, classifyLog, setupLog, loop, entry, exports>>

SessionFiles == SelectSeq(sessionFiles, LAMBDA f : f.kind = "session")

\* save_session_traces(session_id): nothing when local_traces is empty,
\* else one file with session_id, len(local_traces) and local_traces
SaveSessionTraces ==
    /\ Len(SessionFiles) < MaxSaves
    /\ \E session_id \in SessionIds :
          IF local_traces = << >>
          THEN UNCHANGED sessionFiles
          ELSE sessionFiles' = Append(sessionFiles,
                  [kind |-> "session", session_id |-> session_id,
                   trace_count |-> Len(local_traces), traces |-> local_traces])
    /\ UNCHANGED <<routeVars, demoVars, netVars, streamVars, traceVars, toolVars,
                   viewVars, classifyLog, local_traces, setupLog, loop, entry,
                   exports>>

\* create_trace_span(...): None unless a client is set and tracing is
\* enabled, else a span of the client
CreateTraceSpan ==
    /\ spans < MaxLocalTraces
    /\ langfuse_client # "None" /\ tracing_enabled
    /\ spans' = spans + 1
    /\ UNCHANGED <<routeVars, demoVars, netVars, streamVars, langfuse_client,
                   tracing_enabled, flushed, toolVars, viewVars, laterVars>>

(***************************************************************************)
(* The query loops: main.run_demo, test_agents_adk.run_demo,               *)
(* main.run_interactive, test_agents_adk.run_interactive and               *)
(* test_agents_a2a.interactive_mode.                                       *)
(***************************************************************************)
NoLoop == [kind |-> "none", pc |-> "idle", i |-> 0, session |-> 0,
           traces |-> 0, log |-> << >>]

DemoLoops == {"main.run_demo", "test_agents_adk.run_demo"}
InteractiveLoops ==
    {"main.run_interactive", "test_agents_adk.run_interactive",
     "test_agents_a2a.interactive_mode"}

\* len(demo_queries), the same in main.py and test_agents_adk.py
NumDemoQueries == 6

\* the loop is entered; the two test_agents_adk loops and
\* main.run_interactive have created their one session before it
StartLoop ==
    /\ loop = NoLoop
    /\ \E k \in DemoLoops \cup InteractiveLoops :
          loop' = [kind |-> k, pc |-> "turn", i |-> 1, session |-> 1,
                   traces |-> 0, log |-> << >>]
    /\ UNCHANGED <<routeVars, demoVars, netVars, streamVars, traceVars, toolVars,
                   viewVars, classifyLog, local_traces, sessionFiles, setupLog,
                   entry, exports>>

\* how the handling of one query ends: run_agent / run_query /
\* send_message returns, or an Exception is raised inside it
QueryFates == {"answered", "raised"}

\* one pass of a demo loop: main.run_demo wraps run_agent in try / except
\* Exception, run_query catches Exception itself
DemoTurn ==
    /\ loop.kind \in DemoLoops
    /\ loop.pc = "turn"
    /\ loop.i <= NumDemoQueries
    /\ \E fate \in QueryFates :
          loop' = [loop EXCEPT
                     !.log = Append(@, [query |-> loop.i, event |-> "query",
                                        text |-> "", fate |-> fate,
                                        reported |-> (fate = "raised"),
                                        session |-> loop.session,
                                        next |-> "continue"]),
                     !.traces = IF loop.kind = "test_agents_adk.run_demo"
                                   /\ fate = "answered"
                                THEN @ + 1 ELSE @,
                     !.i = @ + 1]
    /\ UNCHANGED <<routeVars, demoVars, netVars, streamVars, traceVars, toolVars,
                   viewVars, classifyLog, local_traces, sessionFiles, setupLog,
                   entry, exports>>

\* the list is exhausted: the demo function goes on to its closing lines
DemoEnds ==
    /\ loop.kind \in DemoLoops
    /\ loop.pc = "turn"
    /\ loop.i > NumDemoQueries
    /\ loop' = [loop EXCEPT !.pc = "returned"]
    /\ UNCHANGED <<routeVars, demoVars, netVars, streamVars, traceVars, toolVars,
                   viewVars, classifyLog, local_traces, sessionFiles, setupLog,
                   entry, exports>>

\* what input() does: returns a line, raises KeyboardInterrupt, or raises
\* EOFError at the end of standard input
InputEvents == {"line", "interrupt", "eof"}
InputLines == {"", "quit", "EXIT", " q ", "help", "demo", "export",
               "Calculate 25% of 180"}
QuitWords == {"quit", "exit", "q"}

\* how the work of one turn ends: as QueryFates, or KeyboardInterrupt
\* during the work, or OSError from writing a file
TurnFates == QueryFates \cup {"interrupted", "os_error"}

Step(next, reported, traces) ==
    [next |-> next, reported |-> reported, traces |-> traces]

\* main.run_interactive: except KeyboardInterrupt: break, except Exception:
\* print
main_turn(ev, text, fate, traces) ==
    LET user_input == Strip(text) IN
    IF ev = "interrupt" THEN Step("break", FALSE, traces)
    ELSE IF ev = "eof" THEN Step("continue", TRUE, traces)
    ELSE IF user_input = "" THEN Step("continue", FALSE, traces)
    ELSE IF Lower(user_input) \in QuitWords THEN Step("break", FALSE, traces)
    ELSE IF Lower(user_input) = "help" THEN Step("continue", FALSE, traces)
    ELSE IF fate = "interrupted" THEN Step("break", FALSE, traces)
    ELSE IF fate = "answered" THEN Step("continue", FALSE, traces)
    ELSE Step("continue", TRUE, traces)

\* test_agents_adk.run_interactive: except KeyboardInterrupt: break is the
\* only handler of the loop; run_query catches Exception itself and records
\* a trace for a query it answered; 'export' calls save_session_traces,
\* which opens a file when there are traces
adk_turn(ev, text, fate, traces) ==
    LET user_input == Strip(text) IN
    IF ev = "interrupt" THEN Step("break", FALSE, traces)
    ELSE IF ev = "eof" THEN Step("crash", FALSE, traces)
    ELSE IF user_input = "" THEN Step("continue", FALSE, traces)
    ELSE IF Lower(user_input) \in QuitWords THEN Step("break", FALSE, traces)
    ELSE IF fate = "interrupted" THEN Step("break", FALSE, traces)
    ELSE IF Lower(user_input) = "export"
         THEN IF traces > 0 /\ fate = "os_error"
              THEN Step("crash", FALSE, traces)
              ELSE Step("continue", FALSE, traces)
    ELSE IF Lower(user_input) = "demo"
         THEN IF fate = "answered" THEN Step("continue", FALSE, traces + 2)
              ELSE Step("continue", TRUE, traces)
    ELSE IF fate = "answered" THEN Step("continue", FALSE, traces + 1)
    ELSE Step("continue", TRUE, traces)

\* test_agents_a2a.interactive_mode: the quit words are tested before the
\* empty line; except KeyboardInterrupt: break, except Exception: print
a2a_turn(ev, text, fate, traces) ==
    LET user_input == Strip(text) IN
    IF ev = "interrupt" THEN Step("break", FALSE, traces)
    ELSE IF ev = "eof" THEN Step("continue", TRUE, traces)
    ELSE IF Lower(user_input) \in QuitWords THEN Step("break", FALSE, traces)
    ELSE IF user_input = "" THEN Step("continue", FALSE, traces)
    ELSE IF fate = "interrupted" THEN Step("break", FALSE, traces)
    ELSE IF fate = "answered" THEN Step("continue", FALSE, traces)
    ELSE Step("continue", TRUE, traces)

\* one pass of an interactive loop, from input() to continue, break or an
\* exception that leaves the loop
InteractiveTurn ==
    /\ loop.kind \in InteractiveLoops
    /\ loop.pc = "turn"
    /\ Len(loop.log) < MaxTurns
    /\ \E ev \in InputEvents : \E text \in InputLines : \E fate \in TurnFates :
          /\ ev # "line" => text = "" /\ fate = "answered"
          /\ LET t == IF loop.kind = "main.run_interactive"
                      THEN main_turn(ev, text, fate, loop.traces)
                      ELSE IF loop.kind = "test_agents_adk.run_interactive"
                      THEN adk_turn(ev, text, fate, loop.traces)
                      ELSE a2a_turn(ev, text, fate, loop.traces) IN
             loop' = [loop EXCEPT
                        !.log = Append(@, [query |-> Len(loop.log) + 1, event |-> ev,
                                           text |-> text, fate |-> fate,
                                           reported |-> t.reported,
                                           session |-> loop.session,
                                           next |-> t.next]),
                        !.traces = t.traces,
                        !.pc = IF t.next = "continue" THEN "turn"
                               ELSE IF t.next = "break" THEN "returned"
                               ELSE "crashed"]
    /\ UNCHANGED <<routeVars, demoVars, netVars, streamVars, traceVars, toolVars,
                   viewVars, classifyLog, local_traces, sessionFiles, setupLog,
                   entry, exports>>

(***************************************************************************)
(* langfuse_export_traces.export_from_langfuse.                            *)
(***************************************************************************)
\* what client.api.trace.get(trace.id) gives for a listed trace: it raises,
\* or returns a trace with its observations (obs.name may be None)
ExportTraces ==
    [ fetch_raises |-> [fetch |-> "raises", observations |-> << >>],
      no_observations |-> [fetch |-> "ok", observations |-> << >>],
      no_agent_run |->
        [fetch |-> "ok", observations |->
           << [named |-> TRUE, name |-> "invocation [router_agent]", output |-> ""] >>],
      empty_output |->
        [fetch |-> "ok", observations |->
           << [named |-> TRUE, name |-> "agent_run [router_agent]", output |-> ""] >>],
      answered |->
        [fetch |-> "ok", observations |->
           << [named |-> TRUE, name |-> "invocation [router_agent]", output |-> ""],
              [named |-> TRUE, name |-> "Agent_Run [weather_agent]",
               output |-> "Sunny in Tokyo"] >>],
      nameless |->
        [fetch |-> "ok", observations |->
           << [named |-> FALSE, name |-> "", output |-> "42"] >>] ]

\* the loop over full_trace.observations: output_text is the output of the
\* last observation named agent_run that has one
OutputText(observations) ==
    LET runs == { k \in DOMAIN observations :
                    /\ Contains(Lower(observations[k].name), "agent_run")
                    /\ observations[k].output # "" } IN
    IF runs = {} THEN ""
    ELSE observations[CHOOSE k \in runs : \A m \in runs : m <= k].output

\* a loop body that leaves the loop when the detail fetch raises
TraceStepFetchFatal(trace) ==
    IF trace.fetch = "raises" THEN "abort"
    ELSE IF trace.observations = << >> THEN "skip"
    ELSE IF \E k \in DOMAIN trace.observations : ~trace.observations[k].named
         THEN "abort"
    ELSE IF OutputText(trace.observations) = "" THEN "skip"
    ELSE "row"

\* the body of the loop over traces_response.data: continue after a fetch
\* that raised, after a trace without observations and after one without
\* output; rows.append otherwise.  obs_name.lower() on a name that is None
\* raises into the outer except
TraceStep(trace) ==
    IF trace.fetch = "raises" THEN "skip"
    ELSE IF trace.observations = << >> THEN "skip"
    ELSE IF \E k \in DOMAIN trace.observations : ~trace.observations[k].named
         THEN "abort"
    ELSE IF OutputText(trace.observations) = "" THEN "skip"
    ELSE "row"

\* rows after the loop has passed the traces, in their order
Rows(traces) ==
    LET F[k \in 0..Len(traces)] ==
          IF k = 0 THEN << >>
          ELSE IF TraceStep(traces[k]) = "row"
               THEN Append(F[k - 1],
                      [id |-> k, response |-> OutputText(traces[k].observations)])
               ELSE F[k - 1]
    IN F[Len(traces)]

\* export_from_langfuse: the returned bool and what is on disk at
\* output_path afterwards
export_from_langfuse(env, traces) ==
    LET False == [returned |-> FALSE, written |-> "none", file |-> << >>]
        df == SelectSeq(Rows(traces), LAMBDA row : Len(row.response) > 0)
    IN
    IF env = "missing_credentials" THEN False
    ELSE IF env \in {"import_error", "list_raises"} THEN False
    ELSE IF traces = << >> THEN False
    ELSE IF \E k \in DOMAIN traces : TraceStep(traces[k]) = "abort" THEN False
    ELSE IF Rows(traces) = << >> THEN False
    ELSE IF df = << >> THEN False
    ELSE IF env = "write_error"
         THEN [returned |-> FALSE, written |-> "partial", file |-> << >>]
    ELSE [returned |-> TRUE, written |-> "csv", file |-> df]

\* one run of export_from_langfuse
ExportCall ==
    /\ exports = << >>
    /\ \E env \in {"ok", "missing_credentials", "import_error", "list_raises",
                   "write_error"} :
       \E n \in 0..MaxTraces : \E kinds \in [1..n -> DOMAIN ExportTraces] :
          LET traces == [k \in 1..n |-> ExportTraces[kinds[k]]] IN
          exports' = Append(exports,
              [env |-> env, traces |-> traces,
               result |-> export_from_langfuse(env, traces)])
    /\ UNCHANGED <<routeVars, demoVars, netVars, streamVars, traceVars, toolVars,
                   viewVars, classifyLog, local_traces, sessionFiles, setupLog,
                   loop, entry>>

(***************************************************************************)
(* The entry points main.py, a2a_server.py and test_agents_adk.py, from    *)
(* the start of the process to the run or the server.                      *)
(***************************************************************************)
NoEntry == [script |-> "none", mode |-> "none", key |-> "", i |-> 0,
            pc |-> "idle", steps |-> << >>]

\* GOOGLE_API_KEY: unset or empty, the placeholders of the .env templates,
\* a key
GoogleKeys == {"", "your_google_api_key_here", "your_google_key", "AIzaSyExample"}

\* the command line: the mode of main.py and test_agents_adk.py, the agent
\* of a2a_server.py
EntryModes ==
    [ main |-> {"query", "demo", "interactive"},
      a2a_server |-> {"router", "weather", "calculator"},
      test_agents_adk |-> {"query", "demo", "interactive"} ]

\* the statements of each script that set up tracing, test the key, create
\* a session or an app, and run, in the order the process executes them;
\* test_agents_adk.py calls lf.setup_langfuse() while it is imported
Program(script) ==
    IF script = "main"
    THEN <<"check_key", "setup_tracing", "create_session", "run">>
    ELSE IF script = "a2a_server"
    THEN <<"check_key", "setup_tracing", "create_app", "run_server">>
    ELSE <<"setup_tracing", "check_key", "create_session", "run">>

\* main.check_environment, test_agents_adk.check_environment and the test
\* of a2a_server.main
KeyAccepted(script, key) ==
    IF script = "main" THEN key # "" /\ key # "your_google_api_key_here"
    ELSE IF script = "a2a_server" THEN key # ""
    ELSE key # "" /\ ~Contains(key, "your_google")

\* the process starts
StartEntry ==
    /\ entry = NoEntry
    /\ \E script \in DOMAIN EntryModes : \E mode \in EntryModes[script] :
       \E key \in GoogleKeys :
          entry' = [script |-> script, mode |-> mode, key |-> key, i |-> 1,
                    pc |-> "running", steps |-> << >>]
    /\ UNCHANGED <<routeVars, demoVars, netVars, streamVars, traceVars, toolVars,
                   viewVars, classifyLog, local_traces, sessionFiles, setupLog,
                   loop, exports>>

\* the next statement of the script: the key test ends the process when
\* the key is not accepted (sys.exit(1), or return from main)
EntryStep ==
    /\ entry.pc = "running"
    /\ entry.i <= Len(Program(entry.script))
    /\ LET step == Program(entry.script)[entry.i] IN
       entry' = IF step = "check_key" /\ ~KeyAccepted(entry.script, entry.key)
                THEN [entry EXCEPT !.pc = "exited", !.steps = Append(@, step)]
                ELSE [entry EXCEPT !.i = @ + 1, !.steps = Append(@, step)]
    /\ UNCHANGED <<routeVars, demoVars, netVars, streamVars, traceVars, toolVars,
                   viewVars, classifyLog, local_traces, sessionFiles, setupLog,
                   loop, exports>>


(***************************************************************************)
(* Specifications.                                                         *)
(***************************************************************************)
Init ==
    /\ registry = [d \in Dispatchers |-> << >>]
    /\ dispatchLog = << >>
    /\ cpc = "main"
    /\ qi = 1
    /\ card = "none"
    /\ crashed = FALSE
    /\ outcome = [k \in 1..NumTestMessages |-> "none"]
    /\ printed = [k \in 1..NumTestMessages |-> {}]
    /\ wire = << >>
    /\ remoteTask = << >>
    /\ hung = {}
    /\ spc = "idle"
    /\ yielded = << >>
    /\ langfuse_client = "None"
    /\ tracing_enabled = FALSE
    /\ spans = 0
    /\ flushed = FALSE
    /\ toolLog = << >>
    /\ response = NoResponse
    /\ ran = {}
    /\ demoOut = << >>
    /\ chatOut = << >>
    /\ response_text = ""
    /\ calls = [k \in 1..NumTestMessages |-> NoCall]
    /\ classifyLog = << >>
    /\ local_traces = << >>
    /\ sessionFiles = << >>
    /\ setupLog = << >>
    /\ loop = NoLoop
    /\ entry = NoEntry
    /\ exports = << >>

NextRoute ==
    \/ ImportAgentModule
    \/ ImportRouterModule
    \/ DispatchRoot
    \/ DispatchRouter

SpecRoute == Init /\ [][NextRoute]_vars

Next ==
    \/ MainSetupLangfuse
    \/ GetAgentCardSend
    \/ CardResponds
    \/ SendMessagePost
    \/ RemoteAccepts
    \/ RemoteStalls
    \/ PostConnectError
    \/ PostTimeout
    \/ RemoteResponds
    \/ RemoteFinishesLate
    \/ LoopEnds
    \/ MainFinally

Spec == Init /\ [][Next]_vars

NextStream ==
    \/ StreamOpen
    \/ RemoteAccepts
    \/ RemoteStalls
    \/ StreamConnectError
    \/ StreamUpdate
    \/ StreamClosed
    \/ StreamTimeout
    \/ RemoteFinishesLate

SpecStream == Init /\ [][NextStream]_vars

NextTools ==
    \/ CallCalculate
    \/ CallConvertUnits
    \/ CallCalculatePercentage
    \/ CallGetWeather

SpecTools == Init /\ [][NextTools]_vars

NextView ==
    \/ ReceiveResponse
    \/ SendMessageExtract
    \/ DemoShows
    \/ InteractiveShows

SpecView == Init /\ [][NextView]_vars

NextClassify == RunQueryClassifies

SpecClassify == Init /\ [][NextClassify]_vars

NextTraces ==
    \/ SetupLangfuseCall
    \/ FlushCall
    \/ SaveTraceLocally
    \/ SaveSessionTraces
    \/ CreateTraceSpan

SpecTraces == Init /\ [][NextTraces]_vars

NextLoops ==
    \/ StartLoop
    \/ DemoTurn
    \/ DemoEnds
    \/ InteractiveTurn

SpecLoops == Init /\ [][NextLoops]_vars

NextEntry ==
    \/ StartEntry
    \/ EntryStep

SpecEntry == Init /\ [][NextEntry]_vars

NextExport == ExportCall

SpecExport == Init /\ [][NextExport]_vars

(***************************************************************************)
(* Properties.                                                             *)
(***************************************************************************)
Raises == {"raised_status", "raised_timeout", "raised_connect", "raised_decode"}

PostsFor(k) == {i \in DOMAIN wire : wire[i].http = "POST" /\ wire[i].q = k}

CancelIssuedFor(k) ==
    \E i \in DOMAIN wire : wire[i].method = "tasks/cancel" /\ wire[i].q = k

\* C4: when the deadline of a remote invocation expires, the client returns
\* an error value with reason timeout to its caller and issues a
\* tasks/cancel request for the outstanding Task.  (The code raises the
\* timeout out of send_message and sends no cancel.)
C4_TimeoutReturnedAndCancelled ==
    \A k \in 1..NumTestMessages :
        outcome[k] \in {"raised_timeout", "returned_timeout"}
            => outcome[k] = "returned_timeout" /\ CancelIssuedFor(k)

\* C5: every Task that is created reaches a terminal state: when nothing
\* more can happen, no Task the remote started is left Submitted, Working or
\* InputRequired.  (After stream_message times out on a remote that has
\* stopped answering, nobody cancels the Task.)
C5_NoTaskLeftUnfinished ==
    (~ENABLED NextStream)
        => \A i \in DOMAIN wire : remoteTask[i] \in Terminal \cup {"none"}

\* C6: two dispatches with the same registry contents and the same query
\* text select the same target.  (root_agent's instruction allows the tool
\* or the sub-agent for the same query.)
C6_DispatchDeterministic ==
    \A i, j \in DOMAIN dispatchLog :
        /\ dispatchLog[i].registry = dispatchLog[j].registry
        /\ dispatchLog[i].query = dispatchLog[j].query
        => dispatchLog[i].target = dispatchLog[j].target

SingleMatch(e) == Cardinality(Matching(e.registry, e.query)) = 1
NoMatch(e) == Matching(e.registry, e.query) = {}
TheMatch(e) == CHOOSE i \in Matching(e.registry, e.query) : TRUE

Rank(reg, i) == (IF reg[i].locality = "local" THEN 0 ELSE Len(reg)) + i
Preferred(reg, m) == CHOOSE i \in m : \A j \in m : Rank(reg, i) <= Rank(reg, j)

\* C8: a query that matches more than one capability goes to a local
\* capability before a remote one and, within one locality, to the one
\* registered first.  (root_agent's instruction lets the sub-agent take a
\* query that the tool registered before it matches.)
C8_TieBreakLocalThenFirstRegistered ==
    \A i \in DOMAIN dispatchLog :
        LET e == dispatchLog[i]
            m == Matching(e.registry, e.query)
        IN  Cardinality(m) > 1 => e.target = e.registry[Preferred(e.registry, m)].name

C10_NoNameLocalAndRemote ==
    \A d \in Dispatchers : \A i, j \in DOMAIN registry[d] :
        registry[d][i].name = registry[d][j].name
            => registry[d][i].locality = registry[d][j].locality

C10_Witness ==
    /\ registry["root_agent"] # << >>
    /\ registry["router_agent"] # << >>
    /\ \E i \in DOMAIN registry["router_agent"] :
          registry["router_agent"][i].locality = "remote"
    /\ \E i \in DOMAIN registry["root_agent"] :
          registry["root_agent"][i].locality = "local"

\* C11: a discovery fetch that is answered with a non-success HTTP status
\* fails: get_agent_card raises, run_demo reports the failure and returns,
\* no registry gains an entry and no message is sent to the endpoint.
C11_FailedDiscoverySendsNothing ==
    card = "status_error" =>
        /\ CardRaises(card) = "HTTPError"
        /\ ~crashed
        /\ cpc \in {"finally", "done"}
        /\ \A i \in DOMAIN wire : wire[i].http # "POST"
        /\ \A d \in Dispatchers : registry[d] = << >>
        /\ \A k \in 1..NumTestMessages : outcome[k] = "none"

C11_Witness ==
    /\ card = "status_error"
    /\ cpc = "done"
    /\ Len(wire) = 1

CardReturned == card # "none" /\ CardRaises(card) = "nothing"

\* C12: a discovery fetch whose payload parses but lacks name or url fails;
\* get_agent_card never returns a card without a name or without a url.
\* (get_agent_card returns whatever JSON the server sent and run_demo shows
\* 'Unknown' or base_url in place of the missing field.)
C12_CardWithoutRequiredFieldRejected ==
    CardReturned => {"name", "url"} \subseteq CardFields(card)

Names(reg) == {reg[i].name : i \in DOMAIN reg}

NoCapability == Capability("None", "none", "none", {})

\* the first capability registered under name n, NoCapability when there is none
RegistryGet(reg, n) ==
    IF n \in Names(reg)
    THEN reg[CHOOSE i \in DOMAIN reg :
                 reg[i].name = n /\ \A j \in DOMAIN reg : reg[j].name = n => i <= j]
    ELSE NoCapability

C14_ToolNeverRaises ==
    \A i \in DOMAIN toolLog : toolLog[i].outcome.kind = "returned"

IsFailedTask(r) == r.top = "result" /\ r.state \in {"failed", "canceled"}
NoArtifactsNoError(r) == r.top # "error" /\ ~(r.top = "result" /\ r.hasArtifacts)

\* C15: a response that is a Failed or Canceled Task, or that carries
\* neither artifacts nor a top-level error, always produces some line of
\* user-facing output.  (interactive_mode prints nothing for a failed Task
\* without artifacts; run_demo prints nothing for a result without status
\* and artifacts; neither prints anything for a body with neither key.)
C15_FailureAlwaysVisible ==
    IsFailedTask(response) \/ (response # NoResponse /\ NoArtifactsNoError(response)) =>
        /\ "run_demo" \in ran => demoOut # << >>
        /\ "interactive_mode" \in ran => chatOut # << >>

TextsOf(out, tag) ==
    LET sel == SelectSeq(out, LAMBDA l : l.tag = tag)
    IN  [i \in DOMAIN sel |-> sel[i].text]

AllTexts(r) == SelectSeq(Flatten(r.artifacts), LAMBDA t : t # "")

\* C16: the answer made of a Completed Task contains every text part of
\* every artifact in full and in order, whatever its length.  (run_demo
\* cuts a text longer than 200 characters down to 200 and appends "...".)
C16_TextsInFullAndInOrder ==
    response.top = "result" /\ response.state = "completed" /\ response.hasArtifacts =>
        /\ "send_message" \in ran => response_text = Concat(AllTexts(response))
        /\ "run_demo" \in ran => TextsOf(demoOut, "Response") = AllTexts(response)
        /\ "interactive_mode" \in ran => TextsOf(chatOut, "Agent") = AllTexts(response)

A2AMethods == {"message/send", "message/stream", "tasks/get", "tasks/cancel"}

\* C17: every request envelope the client posts goes to the root endpoint of
\* the service, with jsonrpc "2.0" and a method among message/send,
\* message/stream, tasks/get and tasks/cancel.  (stream_message posts the
\* method tasks/sendSubscribe to {base_url}/a2a.)
C17_EnvelopeToRootWithKnownMethod ==
    \A i \in DOMAIN wire :
        wire[i].http = "POST" =>
            /\ wire[i].url = RStripSlash(BaseUrl)
            /\ wire[i].jsonrpc = "2.0"
            /\ wire[i].method \in A2AMethods

TerminalDelivered == \E i \in DOMAIN yielded : yielded[i] \in Terminal

\* C18: a streaming invocation ends once an update with a terminal state
\* has been delivered: no update follows the terminal one and the stream,
\* being over, cannot fail afterwards.  (stream_message does not look at the
\* updates; it goes on waiting for lines until the remote closes the
\* connection, and raises the read timeout when the remote does not.)
C18_StreamEndsAtTerminalUpdate ==
    /\ \A i \in DOMAIN yielded : yielded[i] \in Terminal => i = Len(yielded)
    /\ TerminalDelivered => spc # "raised"

\* C19: a failed remote invocation is returned to the caller as a value; no
\* invocation ends by raising out of send_message.  (send_message has no
\* except clause around the request.)
C19_FailureReturnedNotRaised ==
    \A k \in 1..NumTestMessages : outcome[k] \notin Raises

\* C21: every request of a conversation for which the caller supplied a
\* context id carries that id under the key contextId, in the blocking and
\* in the streaming call alike.  (stream_message puts it under sessionId.)
C21_ContextIdUnderOneKey ==
    \A i \in DOMAIN wire :
        wire[i].http = "POST" /\ wire[i].ctxVal # "" => wire[i].ctxKey = "contextId"

\* C25: tracing never changes what send_message returns: whenever the call
\* returns, it returns the response it received, with tracing off, with a
\* span recorded and with the tracing client raising.
C25_TracingKeepsResult ==
    \A k \in 1..NumTestMessages :
        /\ outcome[k] = "returned" =>
              /\ calls[k].received \in Responses
              /\ calls[k].returned = calls[k].received
        /\ outcome[k] # "returned" => calls[k] = NoCall
        /\ calls[k].tracing \in {"span", "error"} =>
              langfuse_client # "None" /\ tracing_enabled

C25_Witness ==
    /\ outcome[1] = "returned" /\ calls[1].tracing = "error"
    /\ calls[1].returned = "completed"
    /\ outcome[2] = "returned" /\ calls[2].tracing = "span"
    /\ spans = 1

QueryClasses == {"weather", "calculation", "conversion", "greeting", "general"}

HasWordOf(words, q) == \E w \in words : Contains(Lower(q), w)

\* C22: classify_query gives every query exactly one of the five classes,
\* by fixed priority: weather before calculation before conversion before
\* greeting, and general when the query holds no word of any list.
C22_ClassifyByPriority ==
    \A i \in DOMAIN classifyLog :
        LET q == classifyLog[i].query
            t == classifyLog[i].query_type
            w == HasWordOf(WeatherWords, q)
            c == HasWordOf(CalculationWords, q)
            v == HasWordOf(ConversionWords, q)
            g == HasWordOf(GreetingWords, q)
        IN  /\ t \in QueryClasses
            /\ w => t = "weather"
            /\ ~w /\ c => t = "calculation"
            /\ ~w /\ ~c /\ v => t = "conversion"
            /\ ~w /\ ~c /\ ~v /\ g => t = "greeting"
            /\ ~w /\ ~c /\ ~v /\ ~g => t = "general"
            /\ classifyLog[i].auto_tags[1] = t

C22_Witness ==
    \E i, j \in DOMAIN classifyLog :
        /\ classifyLog[i].query = "Add up the rain totals"
        /\ classifyLog[i].query_type = "weather"
        /\ classifyLog[j].query = "Compute and convert to miles"
        /\ classifyLog[j].query_type = "calculation"

\* C23: a session file written by save_session_traces(session_id) holds
\* exactly the recorded traces of that session, trace_count is their number
\* and no file is written for a session without traces.  (The function
\* writes every trace of local_traces, whatever its session.)
C23_SessionFileHoldsItsSession ==
    \A i \in DOMAIN SessionFiles :
        LET f == SessionFiles[i] IN
        /\ \A j \in DOMAIN f.traces : f.traces[j].session_id = f.session_id
        /\ f.trace_count = Len(f.traces)
        /\ f.trace_count > 0

\* C29: is_enabled() implies that get_client() is not None, and a
\* setup_langfuse call that fails returns False and leaves the client and
\* the flag as they were.
C29_EnabledImpliesClient ==
    /\ is_enabled => get_client # "None"
    /\ \A i \in DOMAIN setupLog :
          LET c == setupLog[i] IN
          /\ c.result # "ok" => ~c.returned /\ c.after = c.before
          /\ c.returned => c.after = <<"Langfuse", TRUE>>

C29_Witness ==
    /\ Len(setupLog) = 2
    /\ setupLog[1].result = "ok"
    /\ setupLog[2].result = "init_error"
    /\ setupLog[2].after = <<"Langfuse", TRUE>>
    /\ flushed
    /\ local_traces # << >>

\* C24: with an API key configured and the HTTP request failing,
\* get_weather raises nothing and returns what it returns with no key
\* configured.  (The fallback itself calls location.lower() outside the
\* try, so a location that is not a str raises after the failed request.)
C24_WeatherFallsBackQuietly ==
    \A i \in DOMAIN toolLog :
        LET c == toolLog[i] IN
        c.tool = "get_weather" /\ c.args[3] = Str("key_api_error") =>
            /\ c.outcome.kind = "returned"
            /\ c.outcome = get_weather(c.args[1], c.args[2], "no_key")

\* a turn in which the handling raised an exception other than an interrupt
TurnFailed(t) ==
    \/ t.event = "eof"
    \/ t.next = "crash"
    \/ t.reported

TurnQuits(t) ==
    \/ t.event = "interrupt"
    \/ t.fate = "interrupted"
    \/ t.event = "line" /\ Lower(Strip(t.text)) \in QuitWords

\* C26: a failure while handling one query does not stop the run: a demo
\* loop attempts every query once, in list order; in an interactive loop
\* a turn that raised is reported and the next input is read under the
\* same session, and only quit/exit/q or an interrupt ends the loop.
\* (test_agents_adk.run_interactive catches KeyboardInterrupt only.)
C26_FailureDoesNotStopRun ==
    /\ loop.kind \in DemoLoops =>
          /\ \A k \in DOMAIN loop.log : loop.log[k].query = k
          /\ loop.pc = "returned" => Len(loop.log) = NumDemoQueries
    /\ loop.kind \in InteractiveLoops =>
          /\ \A k \in DOMAIN loop.log :
                /\ loop.log[k].session = loop.session
                /\ TurnFailed(loop.log[k]) =>
                      loop.log[k].reported /\ loop.log[k].next = "continue"
          /\ loop.pc # "turn" =>
                loop.log # << >> /\ TurnQuits(loop.log[Len(loop.log)])

\* GOOGLE_API_KEY is not configured, as the script itself defines it
KeyMissing == entry.script # "none" /\ ~KeyAccepted(entry.script, entry.key)

\* C27: when GOOGLE_API_KEY is not configured the entry point stops before
\* tracing setup, before any session or app is created and before any
\* query is run or any port is bound.  (test_agents_adk.py sets up tracing
\* while it is imported, before main tests the key.)
C27_NothingStartsWithoutKey ==
    KeyMissing =>
        \A k \in DOMAIN entry.steps : entry.steps[k] = "check_key"

\* C28: a discovery failure is not fatal to the A2A client: when fetching
\* the agent card fails, run_demo reports it and returns normally with no
\* message sent, and the pending traces are flushed afterwards.  (run_demo
\* catches httpx.HTTPError only; a card body that is not JSON leaves it as
\* an uncaught ValueError.)
C28_DiscoveryFailureNotFatal ==
    card # "none" /\ CardRaises(card) # "nothing" =>
        /\ ~crashed
        /\ cpc \in {"finally", "done"}
        /\ \A i \in DOMAIN wire : wire[i].http # "POST"
        /\ cpc = "done" => flushed = (get_client # "None" /\ is_enabled)

\* a trace the loop skips: the fetch raised, or no observations, or no output
Skipped(trace) ==
    \/ trace.fetch = "raises"
    \/ trace.observations = << >>
    \/ \A k \in DOMAIN trace.observations : trace.observations[k].output = ""

\* C30: export_from_langfuse tolerates partial failure: a trace whose
\* detail fetch raises, or that has no observations or no output, is
\* skipped and the others are still processed; every exported row has a
\* non-empty response; True is returned only when a CSV with at least one
\* row was written; with missing credentials, no traces or no remaining
\* row the result is False and no file is written.
C30_ExportToleratesPartialFailure ==
    \A c \in DOMAIN exports :
        LET e == exports[c]
            kept == { k \in DOMAIN e.traces : ~Skipped(e.traces[k]) }
            sound == \A k \in kept : \A m \in DOMAIN e.traces[k].observations :
                         e.traces[k].observations[m].named
        IN
        /\ e.env = "ok" /\ kept # {} /\ sound =>
              /\ e.result.returned
              /\ { e.result.file[r].id : r \in DOMAIN e.result.file } = kept
              /\ Len(e.result.file) = Cardinality(kept)
        /\ \A r \in DOMAIN e.result.file : e.result.file[r].response # ""
        /\ e.result.returned =>
              e.result.written = "csv" /\ Len(e.result.file) >= 1
        /\ e.env = "missing_credentials" \/ e.traces = << >> \/ kept = {} =>
              ~e.result.returned /\ e.result.written = "none"

C30_Witness ==
    /\ exports # << >>
    /\ exports[1].env = "ok"
    /\ Len(exports[1].traces) = 2
    /\ exports[1].traces[1].fetch = "raises"
    /\ exports[1].result.returned
    /\ Len(exports[1].result.file) = 1
    /\ exports[1].result.file[1].id = 2

====
